---- MODULE Spec2Model ----
(***************************************************************************)
(* A model of docker_explorer/lib/storage.py: the Storage object that      *)
(* reads a Docker data directory (metadata generations 1 and 2), walks the *)
(* layer lineage of a container, lists containers, builds the bind-mount   *)
(* commands of the declared volumes and mounts a container.                *)
(*                                                                         *)
(* Strings are sequences of one-character strings (longer atoms stand for  *)
(* fixed file names such as "graph"), so that str.split, str.strip,        *)
(* str.lstrip and os.path.join are computed rather than assumed.           *)
(***************************************************************************)
EXTENDS Integers, Sequences, FiniteSets, TLC

(***************************************************************************)
(* Bounds of the model.                                                    *)
(***************************************************************************)
\* Number of well-formed layers a data directory holds.
NumLayers == 3

\* Number of directories under containers/.
MaxContainers == 3

\* Start timestamps are 1..MaxTime (ISO timestamps compare as their times).
MaxTime == 2

\* Number of volumes (mount points) a container declares.
MaxVolumes == 2

\* Number of volume commands in a mount plan.
MaxCommands == 2

\* The model records at most MaxWalk elements of layer_list.  A walk over
\* distinct layers visits at most NumLayers + 1 identifiers (the layers and
\* one extra starting or malformed identifier), so the cap is met only by
\* a walk that has already appended some layer twice.
MaxWalk == NumLayers + 2

(***************************************************************************)
(* Python values.                                                          *)
(***************************************************************************)
\* Python's None; no identifier is spelled like it.
None == << "<None>" >>

\* A key that a JSON object does not hold.
Missing == << "<missing>" >>

\* A class attribute that is not defined (Storage itself defines no
\* STORAGE_METHOD; a driver subclass does).
Unset == << "<unset>" >>

Hex == << "a", "b", "c", "d", "e", "f" >>

Whitespace == { " ", "\n" }

\* dict.get(key, default)
Get(dict, key, default) ==
  IF dict[key] = Missing THEN default ELSE dict[key]

Last(s) == s[Len(s)]

\* str.strip(): leading and trailing whitespace removed.
RECURSIVE LStripWs(_)
LStripWs(s) ==
  IF s # << >> /\ s[1] \in Whitespace THEN LStripWs(Tail(s)) ELSE s

RECURSIVE RStripWs(_)
RStripWs(s) ==
  IF s # << >> /\ Last(s) \in Whitespace
    THEN RStripWs(SubSeq(s, 1, Len(s) - 1))
    ELSE s

Strip(s) == RStripWs(LStripWs(s))

\* str.lstrip(chars) for a single character.
RECURSIVE LStrip(_, _)
LStrip(s, ch) ==
  IF s # << >> /\ s[1] = ch THEN LStrip(Tail(s), ch) ELSE s

\* str.split(sep): every occurrence of sep separates two components.
RECURSIVE Split(_, _)
Split(s, sep) ==
  IF \E i \in 1..Len(s) : s[i] = sep
    THEN LET i == CHOOSE k \in 1..Len(s) :
                    s[k] = sep /\ \A j \in 1..(k - 1) : s[j] # sep
         IN  << SubSeq(s, 1, i - 1) >> \o Split(SubSeq(s, i + 1, Len(s)), sep)
    ELSE << s >>

\* posixpath.join(a, b): an absolute b discards a.
PathJoin(a, b) ==
  IF b # << >> /\ b[1] = "/" THEN b
  ELSE IF a = << >> \/ Last(a) = "/" THEN a \o b
  ELSE a \o << "/" >> \o b

\* posixpath.join(parts[1], parts[2], ...)
RECURSIVE JoinAll(_)
JoinAll(parts) ==
  IF Len(parts) = 1 THEN parts[1]
  ELSE PathJoin(JoinAll(SubSeq(parts, 1, Len(parts) - 1)), Last(parts))

(***************************************************************************)
(* Identifiers.                                                            *)
(***************************************************************************)
\* The container the operations are asked about, and an identifier the
\* data directory knows nothing of.
CID == << "C" >>
UnknownId == << "Z" >>
ContainerArgs == { CID, UnknownId }

\* Generation 1 layer identifiers: plain hashes.
PlainIds == { << Hex[i] >> : i \in 1..NumLayers }

\* Generation 2 layer identifiers: "<algorithm>:<digest>".
DigestId(i) == << "s", ":", Hex[i] >>
DigestIds == { DigestId(i) : i \in 1..NumLayers }

\* Identifiers that are not of the form "<algorithm>:<digest>".
NoColonId == << "s" >>
EmptyDigestId == << "s", ":" >>
EmptyAlgorithmId == << ":", "a" >>
TwoColonId == << "s", ":", "a", ":", "b" >>
OddIds == { NoColonId, EmptyDigestId, EmptyAlgorithmId, TwoColonId }

VARIABLES
  docker_version,     \* the docker_version argument of Storage()
  STORAGE_METHOD,     \* the class attribute a driver subclass sets
  docker_directory,   \* the docker_directory argument of Storage()
  disk,               \* the data directory
  pc,                 \* "new", "exit", "ready", "walk", "returned", "error"
  op,                 \* the operation in progress or last finished
  arg,                \* its argument
  current_layer,      \* GetOrderedLayers: local
  layer_list,         \* GetOrderedLayers: local
  result,             \* the value returned
  error,              \* the exception raised
  accessed,           \* whether the file system was looked at
  io                  \* Mount: what was printed, read and executed

vars == << docker_version, STORAGE_METHOD, docker_directory, disk, pc, op,
           arg, current_layer, layer_list, result, error, accessed, io >>

NoResult == << "<no result>" >>
NoError == "none"
NoIO == [shown |-> << >>, prompted |-> FALSE, answer |-> None,
         choice |-> None, executed |-> << >>, commands |-> << >>]

DockerDirectory == << "/", "r", "/", "docker" >>

(***************************************************************************)
(* Storage.__init__                                                        *)
(***************************************************************************)
SupportedVersions == { 1, 2 }

containers_directory == PathJoin(docker_directory, << "containers" >>)

container_config_filename ==
  IF docker_version = 1 THEN << "config.json" >> ELSE << "config.v2.json" >>

\* The constructor refuses a docker_version other than 1 or 2 (sys.exit(1))
\* and looks at nothing else.
Construct ==
  /\ pc = "new"
  /\ op' = "__init__"
  /\ IF docker_version \notin SupportedVersions
       THEN /\ pc' = "exit"
            /\ error' = "SystemExit"
       ELSE /\ pc' = "ready"
            /\ error' = NoError
  /\ UNCHANGED << docker_version, STORAGE_METHOD, docker_directory, disk, arg,
                  current_layer, layer_list, result, accessed, io >>

(***************************************************************************)
(* The data directory.                                                     *)
(*                                                                         *)
(* disk.generation   the metadata generation that wrote the directory      *)
(* disk.graph_dirs   the identifiers l with a directory graph/<l>          *)
(* disk.layer_json   graph/<l>/json: whether it exists and its "parent"    *)
(* disk.parent_file  image/<driver>/imagedb/metadata/s/<digest>/parent:    *)
(*                   whether it exists and its text                        *)
(* disk.content      the digests with a file image/<driver>/imagedb/       *)
(*                   content/s/<digest>                                    *)
(* disk.config       containers/<CID>/<config file>: whether it exists and *)
(*                   its "Image"                                           *)
(* disk.repositories whether the repositories file exists                  *)
(***************************************************************************)
\* The directory name a generation 2 data directory uses for its driver.
DriverOnDisk == << "aufs" >>

\* graph/<l>/json, a JSON object of which the model keeps "parent".
NoLayerJson == [exists |-> FALSE, parent |-> Missing]
LayerJson(parent) == [exists |-> TRUE, parent |-> parent]

\* .../metadata/<algorithm>/<digest>/parent, a text file.
NoParentFile == [exists |-> FALSE, text |-> << >>]
ParentFile(text) == [exists |-> TRUE, text |-> text]

\* containers/<id>/<config file>, a JSON object of which the lineage walk
\* reads "Image".
NoConfig == [exists |-> FALSE, Image |-> Missing]
Config(image) == [exists |-> TRUE, Image |-> image]

\* Any other file.
NoFile == [exists |-> FALSE]
SomeFile == [exists |-> TRUE]

GraphDirPath(layer) ==
  JoinAll(<< docker_directory, << "graph" >>, layer >>)

LayerJsonPath(layer) ==
  JoinAll(<< docker_directory, << "graph" >>, layer, << "json" >> >>)

ConfigPath(container_id) ==
  JoinAll(<< containers_directory, container_id, container_config_filename >>)

ParentPath(driver, hash_method, layer_id) ==
  JoinAll(<< docker_directory, << "image" >>, driver, << "imagedb" >>,
             << "metadata" >>, hash_method, layer_id, << "parent" >> >>)

ContentPath(driver, hash_method, layer_id) ==
  JoinAll(<< docker_directory, << "image" >>, driver, << "imagedb" >>,
             << "content" >>, hash_method, layer_id >>)

RepositoriesPath(driver) ==
  JoinAll(<< docker_directory, << "image" >>, driver,
             << "repositories.json" >> >>)

RepositoriesPathV1 ==
  JoinAll(<< docker_directory, << "repositories-aufs" >> >>)

\* Where the data directory (at DockerDirectory) keeps its files: the path
\* of each file, and which file of disk it is.
DiskPath(parts) == DockerDirectory \o parts

LayerJsonAt ==
  LET ids == PlainIds \cup { CID }
      at(l) == DiskPath(<< "/", "graph", "/" >> \o l \o << "/", "json" >>)
  IN  [p \in { at(l) : l \in ids } |-> CHOOSE l \in ids : at(l) = p]

ParentFileAt ==
  LET at(i) == DiskPath(<< "/", "image", "/" >> \o DriverOnDisk \o
                        << "/", "imagedb", "/", "metadata", "/", "s", "/",
                           Hex[i], "/", "parent" >>)
  IN  [p \in { at(i) : i \in 1..NumLayers } |->
         CHOOSE i \in 1..NumLayers : at(i) = p]

ContentAt ==
  LET at(i) == DiskPath(<< "/", "image", "/" >> \o DriverOnDisk \o
                        << "/", "imagedb", "/", "content", "/", "s", "/",
                           Hex[i] >>)
  IN  [p \in { at(i) : i \in 1..NumLayers } |->
         CHOOSE i \in 1..NumLayers : at(i) = p]

GraphDirAt ==
  LET ids == PlainIds \cup { CID }
      at(l) == DiskPath(<< "/", "graph", "/" >> \o l)
  IN  [p \in { at(l) : l \in ids } |-> CHOOSE l \in ids : at(l) = p]

\* The config file of CID, under the name of either generation.
DiskConfigPath(version) ==
  DiskPath(<< "/", "containers", "/" >> \o CID \o
           << "/", IF version = 1 THEN "config.json" ELSE "config.v2.json" >>)

DiskRepositoriesPath(version) ==
  IF version = 1
    THEN DiskPath(<< "/", "repositories-aufs" >>)
    ELSE DiskPath(<< "/", "image", "/" >> \o DriverOnDisk \o
                  << "/", "repositories.json" >>)

\* The file at a path, NoFile when there is none.
FileAt(path) ==
  IF path \in DOMAIN LayerJsonAt THEN disk.layer_json[LayerJsonAt[path]]
  ELSE IF path \in DOMAIN ParentFileAt THEN disk.parent_file[ParentFileAt[path]]
  ELSE IF path \in DOMAIN ContentAt
    THEN IF ContentAt[path] \in disk.content THEN SomeFile ELSE NoFile
  ELSE IF path = DiskConfigPath(disk.generation) THEN disk.config
  ELSE IF path = DiskRepositoriesPath(disk.generation) /\ disk.repositories
    THEN SomeFile
  ELSE NoFile

\* os.path.isfile, os.path.isdir
IsFile(path) == FileAt(path).exists

IsDir(path) == path \in DOMAIN GraphDirAt /\ GraphDirAt[path] \in disk.graph_dirs

(***************************************************************************)
(* Storage.GetOrderedLayers                                                *)
(***************************************************************************)
\* Lines 157-168: the layer the walk starts at.  The identifier itself when
\* graph/<id> is a directory, else the "Image" of the container's config;
\* "no config" when there is neither.
StartOfWalk(container_id) ==
  IF ~IsDir(GraphDirPath(container_id))
    THEN IF ~IsFile(ConfigPath(container_id))
           THEN [found |-> FALSE, layer |-> None]
           ELSE [found |-> TRUE,
                 layer |-> Get(FileAt(ConfigPath(container_id)), "Image", None)]
    ELSE [found |-> TRUE, layer |-> container_id]

GetOrderedLayers_Begin(container_id) ==
  /\ pc = "ready"
  /\ op' = "GetOrderedLayers"
  /\ arg' = container_id
  /\ accessed' = TRUE
  /\ layer_list' = << >>
  /\ error' = NoError
  /\ LET start == StartOfWalk(container_id)
     IN  IF start.found
           THEN /\ current_layer' = start.layer
                /\ pc' = "walk"
                /\ result' = NoResult
           ELSE /\ current_layer' = container_id
                /\ pc' = "returned"
                /\ result' = << >>
  /\ UNCHANGED << docker_version, STORAGE_METHOD, docker_directory, disk, io >>

\* LookupParent with the text of the parent file taken as it is read, line
\* break included.
LookupParent_Unstripped(layer) ==
  IF docker_version = 1
    THEN IF ~IsFile(LayerJsonPath(layer))
           THEN [kind |-> "raise", error |-> "IOError", layer |-> layer]
           ELSE [kind |-> "next", error |-> NoError,
                 layer |-> Get(FileAt(LayerJsonPath(layer)), "parent", None)]
    ELSE LET parts == Split(layer, ":")
         IN  IF Len(parts) # 2
               THEN [kind |-> "raise", error |-> "ValueError", layer |-> layer]
             ELSE IF STORAGE_METHOD = Unset
               THEN [kind |-> "raise", error |-> "AttributeError",
                     layer |-> layer]
             ELSE IF ~IsFile(ParentPath(STORAGE_METHOD, parts[1], parts[2]))
               THEN [kind |-> "break", error |-> NoError, layer |-> layer]
             ELSE [kind |-> "next", error |-> NoError,
                   layer |-> FileAt(ParentPath(STORAGE_METHOD, parts[1],
                                               parts[2])).text]

\* Lines 172-186: what the loop body does with the layer it has appended.
\*   generation 1: open graph/<layer>/json (IOError when absent) and take
\*                 its "parent", None when it has none;
\*   generation 2: hash_method, layer_id = layer.split(':') (ValueError unless
\*                 there are exactly two components), build the path of the
\*                 parent file from self.STORAGE_METHOD (AttributeError when
\*                 the class defines none), break when it is no file, else
\*                 read and strip it.
LookupParent(layer) ==
  IF docker_version = 1
    THEN IF ~IsFile(LayerJsonPath(layer))
           THEN [kind |-> "raise", error |-> "IOError", layer |-> layer]
           ELSE [kind |-> "next", error |-> NoError,
                 layer |-> Get(FileAt(LayerJsonPath(layer)), "parent", None)]
    ELSE LET parts == Split(layer, ":")
         IN  IF Len(parts) # 2
               THEN [kind |-> "raise", error |-> "ValueError", layer |-> layer]
             ELSE IF STORAGE_METHOD = Unset
               THEN [kind |-> "raise", error |-> "AttributeError",
                     layer |-> layer]
             ELSE IF ~IsFile(ParentPath(STORAGE_METHOD, parts[1], parts[2]))
               THEN [kind |-> "break", error |-> NoError, layer |-> layer]
             ELSE [kind |-> "next", error |-> NoError,
                   layer |-> Strip(FileAt(ParentPath(STORAGE_METHOD, parts[1],
                                                     parts[2])).text)]

\* layer_list.append(layer); the model keeps the first MaxWalk elements.
AppendLayer(list, layer) ==
  IF Len(list) < MaxWalk THEN Append(list, layer) ELSE list

\* Lines 170-188: one test of the loop condition and, when it holds, one run
\* of the loop body.
GetOrderedLayers_Iterate ==
  /\ pc = "walk"
  /\ IF current_layer = None
       THEN /\ pc' = "returned"
            /\ result' = layer_list
            /\ UNCHANGED << layer_list, current_layer, error >>
       ELSE LET found == LookupParent(current_layer)
            IN  /\ layer_list' = AppendLayer(layer_list, current_layer)
                /\ CASE found.kind = "raise" ->
                           /\ pc' = "error"
                           /\ error' = found.error
                           /\ UNCHANGED << current_layer, result >>
                     [] found.kind = "break" ->
                           /\ pc' = "returned"
                           /\ result' = layer_list'
                           /\ UNCHANGED << current_layer, error >>
                     [] found.kind = "next" ->
                           /\ current_layer' = found.layer
                           /\ UNCHANGED << pc, result, error >>
  /\ UNCHANGED << docker_version, STORAGE_METHOD, docker_directory, disk, op,
                  arg, accessed, io >>

\* The caller takes the value or the exception; the Storage object is ready
\* for the next call.
Return ==
  /\ pc \in { "returned", "error" }
  /\ pc' = "ready"
  /\ op' = "none"
  /\ arg' = None
  /\ current_layer' = None
  /\ layer_list' = << >>
  /\ result' = NoResult
  /\ error' = NoError
  /\ io' = NoIO
  /\ UNCHANGED << docker_version, STORAGE_METHOD, docker_directory, disk,
                  accessed >>

(***************************************************************************)
(* The data directories and configurations of the lineage walk.            *)
(***************************************************************************)
\* graph/<l>/json of a layer: absent, without "parent", or naming a layer.
LayerJsonChoices ==
  { NoLayerJson, LayerJson(Missing) } \cup { LayerJson(p) : p \in PlainIds }

\* The text of a parent file: a digest identifier, one followed by a line
\* break, or an identifier with an empty digest.
ParentTexts ==
  DigestIds \cup { DigestId(1) \o << "\n" >>, EmptyDigestId }

ParentFileChoices == { NoParentFile } \cup { ParentFile(t) : t \in ParentTexts }

\* A generation 1 data directory: graph/<CID> may be a directory (CID is then
\* a layer of its own), with or without a json file.
DisksV1 ==
  { [generation |-> 1,
     graph_dirs |-> IF g = "none" THEN PlainIds ELSE PlainIds \cup { CID },
     layer_json |-> [l \in PlainIds \cup { CID } |->
                       IF l = CID THEN (IF g = "none" THEN NoLayerJson ELSE cj)
                       ELSE lj[l]],
     parent_file |-> [i \in 1..NumLayers |-> NoParentFile],
     content |-> { },
     config |-> c,
     repositories |-> TRUE] :
      g \in { "none", "dir" },
      cj \in LayerJsonChoices,
      lj \in [PlainIds -> LayerJsonChoices],
      c \in { NoConfig, Config(Missing) } \cup { Config(p) : p \in PlainIds } }

\* A generation 2 data directory: no graph tree.
DisksV2 ==
  { [generation |-> 2,
     graph_dirs |-> { },
     layer_json |-> [l \in PlainIds \cup { CID } |-> NoLayerJson],
     parent_file |-> pf,
     content |-> { },
     config |-> c,
     repositories |-> TRUE] :
      pf \in [1..NumLayers -> ParentFileChoices],
      c \in { NoConfig, Config(Missing) }
             \cup { Config(p) : p \in DigestIds \cup OddIds } }

\* A data directory that holds nothing.
EmptyDisk ==
  [generation |-> 2,
   graph_dirs |-> { },
   layer_json |-> [l \in PlainIds \cup { CID } |-> NoLayerJson],
   parent_file |-> [i \in 1..NumLayers |-> NoParentFile],
   content |-> { },
   config |-> NoConfig,
   repositories |-> FALSE]

Idle ==
  /\ pc = "new"
  /\ op = "none"
  /\ arg = None
  /\ current_layer = None
  /\ layer_list = << >>
  /\ result = NoResult
  /\ error = NoError
  /\ accessed = FALSE
  /\ io = NoIO

Init ==
  /\ docker_directory = DockerDirectory
  /\ docker_version \in { 1, 2, 3 }
  /\ STORAGE_METHOD \in { Unset, DriverOnDisk }
  /\ disk \in CASE docker_version = 1 -> DisksV1
               [] docker_version = 2 -> DisksV2
               [] OTHER -> { EmptyDisk }
  /\ Idle

Next ==
  \/ Construct
  \/ \E container_id \in ContainerArgs : GetOrderedLayers_Begin(container_id)
  \/ GetOrderedLayers_Iterate
  \/ Return

Spec == Init /\ [][Next]_vars

(***************************************************************************)
(* Storage.GetLayerInfo and Storage.ShowRepositories                       *)
(***************************************************************************)
\* What json.load gives for a layer's descriptor.
LayerInfo == << "layer info" >>

\* Lines 302-315.  Generation 2 splits the identifier as the walk does and
\* builds the path from self.STORAGE_METHOD; a path that is no file gives
\* None.
GetLayerInfo(container_id) ==
  /\ pc = "ready"
  /\ op' = "GetLayerInfo"
  /\ arg' = container_id
  /\ LET parts == Split(container_id, ":")
         outcome ==
           IF docker_version = 1
             THEN [error |-> NoError, read |-> TRUE,
                   value |-> IF IsFile(LayerJsonPath(container_id))
                               THEN LayerInfo ELSE None]
           ELSE IF Len(parts) # 2
             THEN [error |-> "ValueError", read |-> FALSE, value |-> None]
           ELSE IF STORAGE_METHOD = Unset
             THEN [error |-> "AttributeError", read |-> FALSE, value |-> None]
           ELSE [error |-> NoError, read |-> TRUE,
                 value |-> IF IsFile(ContentPath(STORAGE_METHOD, parts[1],
                                                 parts[2]))
                             THEN LayerInfo ELSE None]
     IN  /\ error' = outcome.error
         /\ accessed' = (accessed \/ outcome.read)
         /\ pc' = IF outcome.error = NoError THEN "returned" ELSE "error"
         /\ result' = IF outcome.error = NoError THEN outcome.value
                       ELSE NoResult
  /\ UNCHANGED << docker_version, STORAGE_METHOD, docker_directory, disk,
                  current_layer, layer_list, io >>

\* What ShowRepositories returns for a repositories file it could read.
RepositoriesListing == << "Listing repositories" >>

\* Lines 233-243.  The generation 2 path is built first, from
\* self.STORAGE_METHOD, whatever the generation; the file is then opened
\* (IOError when absent).
ShowRepositories ==
  /\ pc = "ready"
  /\ op' = "ShowRepositories"
  /\ arg' = None
  /\ IF STORAGE_METHOD = Unset
       THEN /\ pc' = "error"
            /\ error' = "AttributeError"
            /\ result' = NoResult
            /\ UNCHANGED accessed
       ELSE LET repositories_file_path ==
                  IF docker_version = 1 THEN RepositoriesPathV1
                  ELSE RepositoriesPath(STORAGE_METHOD)
            IN  /\ accessed' = TRUE
                /\ IF IsFile(repositories_file_path)
                     THEN /\ pc' = "returned"
                          /\ error' = NoError
                          /\ result' = RepositoriesListing
                     ELSE /\ pc' = "error"
                          /\ error' = "IOError"
                          /\ result' = NoResult
  /\ UNCHANGED << docker_version, STORAGE_METHOD, docker_directory, disk,
                  current_layer, layer_list, io >>

\* The identifiers GetLayerInfo is asked about.
LayerArgs == PlainIds \cup DigestIds \cup OddIds

\* Data directories for the operations on single layers: a few lineages,
\* with and without a layer's content file and the repositories file.
StoreDisksV1 ==
  { [generation |-> 1,
     graph_dirs |-> PlainIds,
     layer_json |-> [l \in PlainIds \cup { CID } |->
                       IF l = CID THEN NoLayerJson ELSE lj[l]],
     parent_file |-> [i \in 1..NumLayers |-> NoParentFile],
     content |-> { },
     config |-> c,
     repositories |-> r] :
      lj \in [PlainIds -> { NoLayerJson, LayerJson(Missing) }],
      c \in { NoConfig } \cup { Config(p) : p \in PlainIds },
      r \in BOOLEAN }

StoreDisksV2 ==
  { [generation |-> 2,
     graph_dirs |-> { },
     layer_json |-> [l \in PlainIds \cup { CID } |-> NoLayerJson],
     parent_file |-> pf,
     content |-> ct,
     config |-> c,
     repositories |-> r] :
      pf \in [1..NumLayers -> { NoParentFile, ParentFile(TwoColonId),
                                ParentFile(DigestId(1)) }],
      ct \in { { }, { 1 } },
      c \in { NoConfig, Config(Missing) }
             \cup { Config(p) : p \in DigestIds \cup OddIds },
      r \in BOOLEAN }

StoreInit ==
  /\ docker_directory = DockerDirectory
  /\ docker_version \in { 1, 2, 3 }
  /\ STORAGE_METHOD \in { Unset, DriverOnDisk }
  /\ disk \in CASE docker_version = 1 -> StoreDisksV1
               [] docker_version = 2 -> StoreDisksV2
               [] OTHER -> { EmptyDisk }
  /\ Idle

StoreNext ==
  \/ Construct
  \/ \E container_id \in ContainerArgs : GetOrderedLayers_Begin(container_id)
  \/ GetOrderedLayers_Iterate
  \/ \E container_id \in LayerArgs : GetLayerInfo(container_id)
  \/ ShowRepositories
  \/ Return

StoreSpec == StoreInit /\ [][StoreNext]_vars

(***************************************************************************)
(* ContainerInfo and the container catalog.                                *)
(*                                                                         *)
(* disk.containers is os.listdir(containers_directory): one entry per      *)
(* directory, in the order the listing gives them; container i is the      *)
(* i-th.  An entry holds                                                   *)
(*   config         "absent", "malformed" (not JSON) or "ok"               *)
(*   has_state      whether the config holds a non-empty "State"           *)
(*   Running, StartedAt   the values of that State                         *)
(*   mount_id_file  whether image/<driver>/layerdb/mounts/<id>/mount-id    *)
(*                  exists                                                 *)
(***************************************************************************)
NoState == [has_state |-> FALSE, Running |-> FALSE, StartedAt |-> 0]

States ==
  { NoState } \cup
  { [has_state |-> TRUE, Running |-> r, StartedAt |-> t] :
      r \in BOOLEAN, t \in 1..MaxTime }

ContainerEntry(config, state, mount_id_file) ==
  [config |-> config, has_state |-> state.has_state,
   Running |-> state.Running, StartedAt |-> state.StartedAt,
   mount_id_file |-> mount_id_file]

\* What the disk holds for a container identifier; nothing for one that has
\* no directory.
EntryOf(container_id) ==
  IF container_id \in 1..Len(disk.containers)
    THEN disk.containers[container_id]
    ELSE ContainerEntry("absent", NoState, FALSE)

\* The text of a mount-id file.
MountIdText == << "mount id" >>

\* Lines 54-73: the object ContainerInfo() builds from a config that
\* json.load could read.  self.running and self.start_timestamp are assigned
\* only under `if json_state:`; attrs are the attributes the object has.
NewContainerInfo(container_id, entry) ==
  [container_id |-> container_id,
   attrs |-> IF entry.has_state
               THEN { "container_id", "mount_id", "running", "start_timestamp" }
               ELSE { "container_id", "mount_id" },
   running |-> entry.Running,
   start_timestamp |-> entry.StartedAt,
   mount_id |-> None]

\* A value of the shape of a ContainerInfo, for a call that returned none.
NoInfo ==
  [container_id |-> 0, attrs |-> { }, running |-> FALSE,
   start_timestamp |-> 0, mount_id |-> None]

Raised(e) == [error |-> e, info |-> NoInfo]
Returned(info) == [error |-> NoError, info |-> info]

\* Lines 199-211.  container_info is bound only when the config is a file;
\* generation 2 then opens the mount-id file whether or not it exists.
GetContainerInfoOf(container_id) ==
  LET entry == EntryOf(container_id)
      bound == entry.config # "absent"
  IN  IF entry.config = "malformed" THEN Raised("ValueError")
      ELSE IF docker_version = 2
        THEN IF STORAGE_METHOD = Unset THEN Raised("AttributeError")
             ELSE IF ~entry.mount_id_file THEN Raised("IOError")
             ELSE IF ~bound THEN Raised("UnboundLocalError")
             ELSE Returned([NewContainerInfo(container_id, entry)
                              EXCEPT !.mount_id = MountIdText])
      ELSE IF ~bound THEN Raised("UnboundLocalError")
      ELSE Returned(NewContainerInfo(container_id, entry))

\* [self.GetContainerInfo(x) for x in ids]: the first exception ends it.
RECURSIVE LoadAll(_)
LoadAll(ids) ==
  IF ids = << >> THEN [error |-> NoError, list |-> << >>]
  ELSE LET first == GetContainerInfoOf(Head(ids))
           rest == LoadAll(Tail(ids))
       IN  IF first.error # NoError
             THEN [error |-> first.error, list |-> << >>]
           ELSE IF rest.error # NoError THEN rest
           ELSE [error |-> NoError, list |-> << first.info >> \o rest.list]

\* print(...) is a function here (from __future__ import print_function)
\* and returns None.
PrintReturns == None

\* print('...').format(...): the method of what print returned.
FormatOfPrinted ==
  IF PrintReturns = None THEN "AttributeError" ELSE NoError

\* Lines 137-146.
GetAllContainersInfoOf ==
  LET container_ids_list == [i \in 1..Len(disk.containers) |-> i]
  IN  IF container_ids_list = << >> /\ FormatOfPrinted # NoError
        THEN [error |-> FormatOfPrinted, list |-> << >>]
        ELSE LoadAll(container_ids_list)

\* sorted(list, key=lambda x: x.start_timestamp): stable, ascending.
RECURSIVE InsertByStart(_, _)
InsertByStart(sorted, x) ==
  IF sorted = << >> THEN << x >>
  ELSE IF Last(sorted).start_timestamp <= x.start_timestamp
    THEN Append(sorted, x)
  ELSE Append(InsertByStart(SubSeq(sorted, 1, Len(sorted) - 1), x),
              Last(sorted))

RECURSIVE SortedByStart(_)
SortedByStart(list) ==
  IF list = << >> THEN << >>
  ELSE InsertByStart(SortedByStart(SubSeq(list, 1, Len(list) - 1)), Last(list))

RECURSIVE SelectRunning(_)
SelectRunning(list) ==
  IF list = << >> THEN << >>
  ELSE (IF Head(list).running THEN << Head(list) >> ELSE << >>)
       \o SelectRunning(Tail(list))

\* Lines 221-225.  The sort key reads x.start_timestamp of every element,
\* an AttributeError for an object that has no such attribute.
GetContainersListOf(only_running) ==
  LET all == GetAllContainersInfoOf
  IN  IF all.error # NoError THEN all
      ELSE IF \E i \in 1..Len(all.list) :
                "start_timestamp" \notin all.list[i].attrs
        THEN [error |-> "AttributeError", list |-> << >>]
      ELSE [error |-> NoError,
            list |-> IF only_running
                       THEN SelectRunning(SortedByStart(all.list))
                       ELSE SortedByStart(all.list)]

GetContainerInfo(container_id) ==
  /\ pc = "ready"
  /\ op' = "GetContainerInfo"
  /\ arg' = container_id
  /\ accessed' = TRUE
  /\ LET out == GetContainerInfoOf(container_id)
     IN  /\ error' = out.error
         /\ pc' = IF out.error = NoError THEN "returned" ELSE "error"
         /\ result' = IF out.error = NoError THEN out.info ELSE NoResult
  /\ UNCHANGED << docker_version, STORAGE_METHOD, docker_directory, disk,
                  current_layer, layer_list, io >>

GetAllContainersInfo ==
  /\ pc = "ready"
  /\ op' = "GetAllContainersInfo"
  /\ arg' = None
  /\ accessed' = TRUE
  /\ LET out == GetAllContainersInfoOf
     IN  /\ error' = out.error
         /\ pc' = IF out.error = NoError THEN "returned" ELSE "error"
         /\ result' = IF out.error = NoError THEN out.list ELSE NoResult
  /\ UNCHANGED << docker_version, STORAGE_METHOD, docker_directory, disk,
                  current_layer, layer_list, io >>

GetContainersList(only_running) ==
  /\ pc = "ready"
  /\ op' = "GetContainersList"
  /\ arg' = only_running
  /\ accessed' = TRUE
  /\ LET out == GetContainersListOf(only_running)
     IN  /\ error' = out.error
         /\ pc' = IF out.error = NoError THEN "returned" ELSE "error"
         /\ result' = IF out.error = NoError THEN out.list ELSE NoResult
  /\ UNCHANGED << docker_version, STORAGE_METHOD, docker_directory, disk,
                  current_layer, layer_list, io >>

\* The directories under containers/ in generation 1 (no mount-id files) and
\* in generation 2.
EntryChoices(generation) ==
  { ContainerEntry(c, st, m) :
      c \in { "absent", "malformed" }, st \in { NoState },
      m \in IF generation = 2 THEN BOOLEAN ELSE { FALSE } }
  \cup
  { ContainerEntry("ok", st, m) :
      st \in States, m \in IF generation = 2 THEN BOOLEAN ELSE { FALSE } }

CatalogDisks(generation) ==
  { [generation |-> generation, containers |-> cs] :
      cs \in UNION { [1..n -> EntryChoices(generation)] : n \in 0..MaxContainers } }

CatalogInit ==
  /\ docker_directory = DockerDirectory
  /\ docker_version \in { 1, 2 }
  /\ STORAGE_METHOD \in IF docker_version = 2 THEN { Unset, DriverOnDisk }
                         ELSE { DriverOnDisk }
  /\ disk \in CatalogDisks(docker_version)
  /\ Idle

\* The identifiers GetContainerInfo is asked about: 0 has no directory.
CatalogNext ==
  \/ Construct
  \/ \E container_id \in 0..MaxContainers :
        /\ container_id <= Len(disk.containers)
        /\ GetContainerInfo(container_id)
  \/ GetAllContainersInfo
  \/ \E only_running \in BOOLEAN : GetContainersList(only_running)
  \/ Return

CatalogSpec == CatalogInit /\ [][CatalogNext]_vars

(***************************************************************************)
(* _MakeExtraVolumeCommands                                                *)
(*                                                                         *)
(* A container's declared volumes are a dict in the config file; it is     *)
(* modelled as the sequence of its items in iteration order.  Generation 1 *)
(* declares Volumes (mount point -> storage), generation 2 declares        *)
(* MountPoints (name -> {Source, Destination, Name}).                      *)
(***************************************************************************)
\* The components of an absolute path, "." and "" dropped, ".." resolved.
RECURSIVE Resolve(_, _)
Resolve(stack, components) ==
  IF components = << >> THEN stack
  ELSE LET c == Head(components)
       IN  IF c = << >> \/ c = << "." >>
             THEN Resolve(stack, Tail(components))
           ELSE IF c = << ".." >>
             THEN Resolve(IF stack = << >> THEN << >>
                          ELSE SubSeq(stack, 1, Len(stack) - 1),
                          Tail(components))
           ELSE Resolve(Append(stack, c), Tail(components))

\* "/".join(components)
RECURSIVE JoinWith(_, _)
JoinWith(components, sep) ==
  IF components = << >> THEN << >>
  ELSE IF Len(components) = 1 THEN components[1]
  ELSE components[1] \o << sep >> \o JoinWith(Tail(components), sep)

\* os.path.abspath of an absolute path.
AbsPath(path) ==
  << "/" >> \o JoinWith(Resolve(<< >>, Split(path, "/")), "/")

\* Line 96.
root_directory == AbsPath(PathJoin(docker_directory, << ".." >>))

\* 'mount --bind -o ro {0:s} {1:s}'.format(storage_path, volume_mountpoint)
BindCommand(storage_path, volume_mountpoint) ==
  << "mount", " ", "--bind", " ", "-o", " ", "ro", " " >>
    \o storage_path \o << " " >> \o volume_mountpoint

\* Lines 333-339, for the items of Volumes in iteration order.
RECURSIVE VolumeCommands(_, _)
VolumeCommands(items, mount_dir) ==
  IF items = << >> THEN << >>
  ELSE LET mountpoint == Head(items)[1]
           storage == Head(items)[2]
           mountpoint_ihp == LStrip(mountpoint, "/")
           storage_ihp == LStrip(storage, "/")
           storage_path == PathJoin(root_directory, storage_ihp)
           volume_mountpoint == PathJoin(mount_dir, mountpoint_ihp)
       IN  << BindCommand(storage_path, volume_mountpoint) >>
             \o VolumeCommands(Tail(items), mount_dir)

\* Lines 344-355, for the values of MountPoints in iteration order.
RECURSIVE MountPointCommands(_, _)
MountPointCommands(values, mount_dir) ==
  IF values = << >> THEN << >>
  ELSE LET storage_info == Head(values)
           src_mount_ihp == storage_info.Source
           dst_mount_ihp == storage_info.Destination
           dst_mount == LStrip(dst_mount_ihp, "/")
           src_mount ==
             IF LStrip(src_mount_ihp, "/") = << >>
               THEN JoinAll(<< << "docker" >>, << "volumes" >>,
                               storage_info.Name, << "_data" >> >>)
               ELSE LStrip(src_mount_ihp, "/")
           storage_path == PathJoin(root_directory, src_mount)
           volume_mountpoint == PathJoin(mount_dir, dst_mount)
       IN  << BindCommand(storage_path, volume_mountpoint) >>
             \o MountPointCommands(Tail(values), mount_dir)

\* A dict read from the config file, as its items in iteration order, and
\* the None that dict.get() returns for an absent key.
Dict(items) == [is_none |-> FALSE, items |-> items]
NoneDict == [is_none |-> TRUE, items |-> << >>]

\* "if d:" is false for None and for the empty dict.
Truthy(d) == ~d.is_none /\ d.items # << >>

\* Lines 328-357.
ExtraVolumeCommands(container_info, mount_dir) ==
  IF docker_version = 1
    THEN IF Truthy(container_info.volumes)
           THEN VolumeCommands(container_info.volumes.items, mount_dir)
           ELSE << >>
  ELSE IF docker_version = 2
    THEN IF Truthy(container_info.mount_points)
           THEN MountPointCommands(container_info.mount_points.items,
                                   mount_dir)
           ELSE << >>
  ELSE << >>

MakeExtraVolumeCommands(container_info, mount_dir) ==
  /\ pc = "ready"
  /\ op' = "_MakeExtraVolumeCommands"
  /\ arg' = [container_info |-> container_info, mount_dir |-> mount_dir]
  /\ result' = ExtraVolumeCommands(container_info, mount_dir)
  /\ pc' = "returned"
  /\ error' = NoError
  /\ UNCHANGED << docker_version, STORAGE_METHOD, docker_directory, disk,
                  current_layer, layer_list, accessed, io >>

\* The paths a config file can declare.
MountDir == << "/", "m" >>
ContainerPaths == { << "/", "d" >>, << "d" >>, << "/", "/", "e" >> }
HostPaths == { << "/", "s" >>, << "s" >>, << "/" >>, << >> }
VolumeNames == { << "n" >>, << "/", "n" >>, << >> }

\* The sequences over S of at most MaxVolumes elements.
UpTo(S) == UNION { [1..n -> S] : n \in 0..MaxVolumes }

\* The items of a Volumes dict: its keys are distinct.
VolumeItems ==
  { items \in UpTo(ContainerPaths \X (HostPaths \ { << >> })) :
      \A i, j \in 1..Len(items) : items[i][1] = items[j][1] => i = j }

MountPointValues ==
  UpTo([Source : HostPaths, Destination : ContainerPaths, Name : VolumeNames])

\* What ContainerInfo.__init__ leaves in volumes and mount_points (lines 65
\* and 71) for a config file of the generation.
ContainerInfos(generation) ==
  IF generation = 1
    THEN [volumes : { Dict(items) : items \in VolumeItems } \cup { NoneDict },
          mount_points : { NoneDict }]
    ELSE [volumes : { NoneDict },
          mount_points : { Dict(values) : values \in MountPointValues }
                           \cup { NoneDict }]

VolumeInit ==
  /\ docker_directory = DockerDirectory
  /\ docker_version \in { 1, 2 }
  /\ STORAGE_METHOD = DriverOnDisk
  /\ disk = EmptyDisk
  /\ Idle

VolumeNext ==
  \/ Construct
  \/ \E container_info \in ContainerInfos(docker_version) :
        MakeExtraVolumeCommands(container_info, MountDir)
  \/ Return

VolumeSpec == VolumeInit /\ [][VolumeNext]_vars

(***************************************************************************)
(* Mount                                                                   *)
(***************************************************************************)
\* The plans MakeMountCommands hands to Mount: the layer-union command of
\* the driver, then the commands for the declared volumes.
MountPlans ==
  { << "union" >> \o binds :
      binds \in UNION { [1..n -> { "bind1", "bind2" }] : n \in 0..MaxCommands } }

\* What the caller types when raw_input() asks.
Answers ==
  { << >>, << "y" >>, << "Y" >>, << "y", "e", "s" >>, << "Y", "E", "S" >>,
    << "n" >>, << "N" >>, << "n", "o" >> }

\* str.lower()
LowerChar(ch) ==
  CASE ch = "Y" -> "y" [] ch = "E" -> "e" [] ch = "S" -> "s"
    [] ch = "N" -> "n" [] ch = "O" -> "o" [] OTHER -> ch

Lower(s) == [i \in 1..Len(s) |-> LowerChar(s[i])]

\* Line 373.
Proceeds(choice) ==
  choice = << >> \/ choice = << "y" >> \/ choice = << "y", "e", "s" >>

\* Lines 367-376.  The base class defines no MakeMountCommands.  The
\* question is printed before the method of what print returned is looked
\* up; answer is what the caller types if raw_input() is reached.
Mount(container_id, mount_dir, answer) ==
  /\ pc = "ready"
  /\ op' = "Mount"
  /\ arg' = container_id
  /\ result' = NoResult
  /\ IF STORAGE_METHOD = Unset
       THEN /\ io' = [NoIO EXCEPT !.answer = answer]
            /\ error' = "AttributeError"
            /\ pc' = "error"
       ELSE \E commands \in MountPlans :
              LET asked == FormatOfPrinted = NoError
                  choice == IF asked THEN Lower(answer) ELSE None
              IN  /\ io' = [shown |-> commands,
                            prompted |-> TRUE,
                            answer |-> answer,
                            choice |-> choice,
                            executed |-> IF asked /\ Proceeds(choice)
                                           THEN commands ELSE << >>,
                            commands |-> commands]
                  /\ error' = FormatOfPrinted
                  /\ pc' = IF asked THEN "returned" ELSE "error"
  /\ UNCHANGED << docker_version, STORAGE_METHOD, docker_directory, disk,
                  current_layer, layer_list, accessed >>

MountInit ==
  /\ docker_directory = DockerDirectory
  /\ docker_version \in { 1, 2 }
  /\ STORAGE_METHOD \in { Unset, DriverOnDisk }
  /\ disk = EmptyDisk
  /\ Idle

MountNext ==
  \/ Construct
  \/ \E answer \in Answers : Mount(CID, MountDir, answer)
  \/ Return

MountSpec == MountInit /\ [][MountNext]_vars

(***************************************************************************)
(* The lineage a data directory describes, read off the directory itself.  *)
(***************************************************************************)
\* The layer a container's lineage starts at: the container's own layer when
\* the graph tree has one, else the image its config names; None when there
\* is neither.
StartingLayer(container_id) ==
  IF container_id \in disk.graph_dirs THEN container_id
  ELSE IF container_id = CID /\ disk.config.exists
            /\ disk.config.Image # Missing
    THEN disk.config.Image
  ELSE None

\* Whether the data directory holds the file that gives the layer's parent.
\* Generation 1: graph/<layer>/json.  Generation 2: the parent file of the
\* layer's digest, under the configured driver.
HasParentPointerFile(layer) ==
  IF disk.generation = 1
    THEN layer \in DOMAIN disk.layer_json /\ disk.layer_json[layer].exists
    ELSE \E i \in 1..NumLayers :
            layer = DigestId(i) /\ disk.parent_file[i].exists

\* Whether the layer is one the data directory can hold a parent pointer for.
IsLayerOnDisk(layer) ==
  IF disk.generation = 1
    THEN layer \in DOMAIN disk.layer_json
    ELSE STORAGE_METHOD = DriverOnDisk /\ layer \in DigestIds

\* The parent the data directory gives a layer, None for a layer without.
ParentPointer(layer) ==
  IF disk.generation = 1
    THEN IF disk.layer_json[layer].parent = Missing
           THEN None
           ELSE disk.layer_json[layer].parent
    ELSE LET i == CHOOSE k \in 1..NumLayers : layer = DigestId(k)
             text == disk.parent_file[i].text
         IN  IF ~disk.parent_file[i].exists THEN None
             ELSE IF text # << >> /\ Last(text) = "\n"
               THEN SubSeq(text, 1, Len(text) - 1)
               ELSE text

\* The layers from `layer` on form a simple chain of n layers that ends at a
\* layer with no parent.  (Generation 1 gives a layer's parent in the layer's
\* own descriptor, so every layer of a chain has one.)
RECURSIVE IsChain(_, _)
IsChain(layer, n) ==
  /\ n >= 1
  /\ IsLayerOnDisk(layer)
  /\ disk.generation = 1 => HasParentPointerFile(layer)
  /\ IF n = 1
       THEN ParentPointer(layer) = None
       ELSE /\ ParentPointer(layer) # None
            /\ IsChain(ParentPointer(layer), n - 1)

NoDuplicates(list) ==
  \A i, j \in 1..Len(list) : list[i] = list[j] => i = j

InWalk == op = "GetOrderedLayers" /\ pc \in { "walk", "returned", "error" }

(***************************************************************************)
(* C1.  When the layers of a container form a simple parent chain of N     *)
(* layers that ends at a layer with no parent, GetOrderedLayers raises     *)
(* nothing, never holds more than N layers, and returns exactly N          *)
(* identifiers, each once, starting at the starting layer, each followed   *)
(* by its parent, the last one without a parent; in both generations.      *)
(***************************************************************************)
C1_ChainIsReturned ==
  \A n \in 1..(NumLayers + 1) :
    (/\ InWalk
     /\ docker_version = disk.generation
     /\ StartingLayer(arg) # None
     /\ IsChain(StartingLayer(arg), n))
    => /\ pc # "error"
       /\ Len(layer_list) <= n
       /\ pc = "returned" =>
            /\ Len(result) = n
            /\ NoDuplicates(result)
            /\ result[1] = StartingLayer(arg)
            /\ \A i \in 1..(n - 1) : result[i + 1] = ParentPointer(result[i])
            /\ ParentPointer(result[n]) = None

\* A chain of three layers was walked, with a parent file that ends in a
\* line break.
C1_Witness ==
  /\ InWalk
  /\ pc = "returned"
  /\ docker_version = 2
  /\ StartingLayer(arg) # None
  /\ IsChain(StartingLayer(arg), 3)
  /\ Len(result) = 3
  /\ \E i \in 1..NumLayers :
        /\ disk.parent_file[i].exists
        /\ Last(disk.parent_file[i].text) = "\n"
        /\ DigestId(i) \in { result[k] : k \in 1..Len(result) }

(***************************************************************************)
(* C2.  GetOrderedLayers terminates on every data directory and returns a  *)
(* finite chain, also when the parent pointers hold a cycle.               *)
(*                                                                         *)
(* The parent the loop finds for a layer depends on that layer and on the  *)
(* data directory alone, and the directory does not change: a walk that    *)
(* appends a layer it has appended before repeats itself from there on and *)
(* never ends.  The walk ends exactly when it never holds a layer twice,   *)
(* which is what a walk that stops at a cycle and returns the truncated    *)
(* chain guarantees.                                                       *)
(***************************************************************************)
C2_WalkTerminates == InWalk => NoDuplicates(layer_list)

(***************************************************************************)
(* C3.  When the file that would give the parent of the layer the walk is  *)
(* at is absent, the walk ends with no error and returns the chain built   *)
(* so far, that layer included; in either generation.                      *)
(***************************************************************************)
C3_AbsentParentEndsWalk ==
  (/\ InWalk
   /\ pc \in { "returned", "error" }
   /\ docker_version = disk.generation
   /\ layer_list # << >>
   /\ IsLayerOnDisk(Last(layer_list))
   /\ ~HasParentPointerFile(Last(layer_list)))
  => /\ pc = "returned"
     /\ result = layer_list

(***************************************************************************)
(* C4.  In generation 2 every identifier GetOrderedLayers or GetLayerInfo  *)
(* meets is split on its first ':' into (algorithm, digest): one with no   *)
(* ':' or with an empty component fails with a parse error and is never    *)
(* silently accepted, and one with further ':' is accepted, the rest being *)
(* its digest.                                                             *)
(***************************************************************************)
\* The identifier split on its first ':' has two non-empty components.
SplitsOnFirstColon(id) ==
  \E i \in 1..Len(id) :
    /\ id[i] = ":"
    /\ \A j \in 1..(i - 1) : id[j] # ":"
    /\ i > 1
    /\ i < Len(id)

\* The identifiers the operation has met.
IdentifiersMet ==
  IF op = "GetOrderedLayers" THEN layer_list ELSE << arg >>

C4_IdentifiersSplitOnFirstColon ==
  (/\ docker_version = 2
   /\ STORAGE_METHOD # Unset
   /\ op \in { "GetOrderedLayers", "GetLayerInfo" }
   /\ pc \in { "returned", "error" })
  => /\ (\E i \in 1..Len(IdentifiersMet) :
            ~SplitsOnFirstColon(IdentifiersMet[i]))
          => (pc = "error" /\ error = "ValueError")
     /\ (pc = "error" /\ error = "ValueError")
          => ~SplitsOnFirstColon(Last(IdentifiersMet))

(***************************************************************************)
(* C6.  An unsupported configuration (a docker_version other than 1 or 2,  *)
(* or no driver name: STORAGE_METHOD unset) is rejected at construction:   *)
(* the object never becomes ready for an operation and no file of the data *)
(* directory is looked at.                                                 *)
(***************************************************************************)
\* The driver name is counted as needed in generation 2 only, whose paths
\* all hold it (generation 1 has the one legacy layout).
UnsupportedConfiguration ==
  \/ docker_version \notin SupportedVersions
  \/ docker_version = 2 /\ STORAGE_METHOD = Unset

C6_RejectedAtConstruction ==
  UnsupportedConfiguration => (pc \in { "new", "exit" } /\ ~accessed)

(***************************************************************************)
(* The catalog a data directory describes, read off its entries.           *)
(***************************************************************************)
InCatalog(name) == op = name /\ pc \in { "returned", "error" }

\* The configuration can read the catalog.
CatalogReadable ==
  docker_version = 1 \/ STORAGE_METHOD = DriverOnDisk

\* An entry whose config cannot be read: absent, or not JSON.
IsBadEntry(entry) == entry.config # "ok"

\* An entry GetContainerInfo loads.
IsLoadableEntry(entry) ==
  entry.config = "ok" /\ (docker_version = 2 => entry.mount_id_file)

\* A container counts as running when its State says so; one without a
\* State is not running.
CountsAsRunning(entry) == entry.has_state /\ entry.Running

IdsOf(list) == [k \in 1..Len(list) |-> list[k].container_id]

\* The identifiers in ids whose entries load, in their order.
RECURSIVE LoadableIds(_)
LoadableIds(ids) ==
  IF ids = << >> THEN << >>
  ELSE (IF IsLoadableEntry(disk.containers[Head(ids)])
          THEN << Head(ids) >> ELSE << >>)
       \o LoadableIds(Tail(ids))

AllIds == [i \in 1..Len(disk.containers) |-> i]

(***************************************************************************)
(* C5.  Whenever GetAllContainersInfo() gives the records of the           *)
(* containers on disk, GetContainersList(only_running=True) returns        *)
(* exactly those of them that run, none missing and none twice, ascending  *)
(* by start timestamp; a container with no State counts as not running and *)
(* does not make the call fail.                                            *)
(***************************************************************************)
C5_RunningContainersListed ==
  (/\ InCatalog("GetContainersList")
   /\ arg = TRUE
   /\ GetAllContainersInfoOf.error = NoError)
  => /\ pc = "returned"
     /\ \A k \in 1..Len(result) :
          CountsAsRunning(EntryOf(result[k].container_id))
     /\ \A i \in 1..Len(disk.containers) :
          CountsAsRunning(disk.containers[i])
            => Cardinality({ k \in 1..Len(result) :
                              result[k].container_id = i }) = 1
     /\ \A k \in 1..(Len(result) - 1) :
          EntryOf(result[k].container_id).StartedAt
            <= EntryOf(result[k + 1].container_id).StartedAt

(***************************************************************************)
(* C7.  In generation 2, GetContainerInfo of a container whose config file *)
(* is there and whose mount-id file is absent returns the record with      *)
(* mount_id None and raises nothing; the other fields are those of the     *)
(* record it returns when the mount-id file is there.                      *)
(***************************************************************************)
C7_MissingMountIdTolerated ==
  (/\ InCatalog("GetContainerInfo")
   /\ docker_version = 2
   /\ STORAGE_METHOD = DriverOnDisk
   /\ EntryOf(arg).config = "ok"
   /\ ~EntryOf(arg).mount_id_file)
  => /\ pc = "returned"
     /\ result = NewContainerInfo(arg, EntryOf(arg))

(***************************************************************************)
(* C8.  When containers/ holds entries that load and at least one entry    *)
(* whose config is missing or malformed, GetAllContainersInfo still        *)
(* completes and returns the records of the entries that load.             *)
(***************************************************************************)
C8_BadEntriesSkipped ==
  (/\ InCatalog("GetAllContainersInfo")
   /\ CatalogReadable
   /\ \E i \in 1..Len(disk.containers) : IsLoadableEntry(disk.containers[i])
   /\ \E i \in 1..Len(disk.containers) : IsBadEntry(disk.containers[i])
   /\ \A i \in 1..Len(disk.containers) :
        IsLoadableEntry(disk.containers[i]) \/ IsBadEntry(disk.containers[i]))
  => /\ pc = "returned"
     /\ IdsOf(result) = LoadableIds(AllIds)

(***************************************************************************)
(* Volumes.                                                                *)
(***************************************************************************)
\* The volumes a container declares, in the iteration order of its
\* collection, each as a destination in the container and a source on the
\* host.
DeclaredVolumes(container_info) ==
  IF docker_version = 1
    THEN LET items == container_info.volumes.items
         IN  [i \in 1..Len(items) |->
                [destination |-> items[i][1],
                 source |-> items[i][2],
                 name |-> << >>]]
    ELSE LET values == container_info.mount_points.items
         IN  [i \in 1..Len(values) |->
                [destination |-> values[i].Destination,
                 source |-> values[i].Source,
                 name |-> values[i].Name]]

\* path is directory or lies below it.
IsUnder(path, directory) ==
  \/ path = directory
  \/ /\ Len(path) > Len(directory)
     /\ SubSeq(path, 1, Len(directory)) = directory
     /\ path[Len(directory) + 1] = "/"

\* The words of a command line.
Words(command) == Split(command, " ")

IsReadOnlyBind(command) ==
  /\ Len(Words(command)) = 6
  /\ SubSeq(Words(command), 1, 4)
       = << << "mount" >>, << "--bind" >>, << "-o" >>, << "ro" >> >>

SourceOf(command) == Words(command)[5]
DestinationOf(command) == Words(command)[6]

\* C9: _MakeExtraVolumeCommands returns one bind mount per declared volume,
\* in the order of the declarations, each read-only, its source under the
\* storage root directory and its destination the declared container path
\* under mount_dir; a generation 2 mount point with an empty Source and a
\* volume name gets its source from docker/volumes/<Name>/_data under the
\* root; with nothing declared the result is empty.
C9_OneReadOnlyBindPerVolume ==
  (op = "_MakeExtraVolumeCommands" /\ pc = "returned") =>
    LET declared == DeclaredVolumes(arg.container_info)
    IN  /\ Len(result) = Len(declared)
        /\ \A i \in 1..Len(declared) :
             /\ IsReadOnlyBind(result[i])
             /\ IsUnder(SourceOf(result[i]), root_directory)
             /\ IsUnder(DestinationOf(result[i]), arg.mount_dir)
             /\ DestinationOf(result[i])
                  = PathJoin(arg.mount_dir,
                             LStrip(declared[i].destination, "/"))
             /\ (docker_version = 2 /\ declared[i].source = << >>
                   /\ declared[i].name # << >>) =>
                  SourceOf(result[i])
                    = root_directory \o << "/", "docker", "/", "volumes", "/" >>
                        \o declared[i].name \o << "/", "_data" >>

(***************************************************************************)
(* Mounting.                                                               *)
(***************************************************************************)
\* An explicit yes.
Affirmative == { << "y" >>, << "y", "e", "s" >> }

MountEnded == op = "Mount" /\ pc \in { "returned", "error" }

====
